---- MODULE Spec2Model ----
(***************************************************************************)
(* Model of the VidReduce / YTSummarize web server (src/webServer.js):     *)
(* the POST /summarize handler and the functions it calls, one action per  *)
(* piece of handler code that runs between two awaits; the download        *)
(* routes; the second definition of the handler in the same file; and the  *)
(* command line scripts (src/unnamed/part_000, part_001).  The replies of  *)
(* upstream services (YouTube Data API, youtubei.js, fxtwitter mirror API, *)
(* video CDN, OpenAI, Gemini) are the inputs, drawn from small sets.       *)
(*                                                                         *)
(* JavaScript strings that the code inspects character by character (the   *)
(* user-supplied videoUrl / videoId) are sequences of one-character        *)
(* strings.  API keys and provider names are TLA+ strings, "" standing for *)
(* an absent or empty (falsy) value.  Error messages are sequences of text *)
(* fragments; String.includes on a message is membership of a fragment.    *)
(***************************************************************************)
EXTENDS Integers, Sequences, FiniteSets, TLC

\* ------------------------------------------------------------------------
\* Bounds of the model
\* ------------------------------------------------------------------------
\* largest number of items in a YouTube Data API videos.list response
MaxItems == 1

\* ------------------------------------------------------------------------
\* JavaScript values
\* ------------------------------------------------------------------------
\* `undefined` for a string-valued request field (never a character sequence:
\* its one element is not a single character)
Undefined == <<"#undefined">>

\* String(undefined), what RegExp.prototype.test sees for a missing field
UndefinedText == <<"u","n","d","e","f","i","n","e","d">>

\* a provider field that is missing from the body, and one that is JSON null
AiUndefined == "#undefined"
AiNull == "#null"

Truthy(v) == v # Undefined /\ v # <<>>

\* a || b on string-valued request fields
OrElse(a, b) == IF Truthy(a) THEN a ELSE b

\* a || b on keys and provider names ("" is the falsy value)
KeyOr(a, b) == IF a # "" THEN a ELSE b

ToText(v) == IF v = Undefined THEN UndefinedText ELSE v

Digits == {"0", "1", "2", "3", "4", "5", "6", "7", "8", "9"}

\* String.prototype.includes / an unanchored literal regular expression
Contains(s, p) ==
    \E i \in 1..(Len(s) - Len(p) + 1) : SubSeq(s, i, i + Len(p) - 1) = p

\* ------------------------------------------------------------------------
\* Video Resolver
\* ------------------------------------------------------------------------
TwitterCom == <<"t","w","i","t","t","e","r",".","c","o","m">>
XCom == <<"x",".","c","o","m">>
StatusSlash == <<"s","t","a","t","u","s","/">>

\* /status\/\d+/ matches at position i of s
StatusMatchAt(s, i) ==
    /\ i + Len(StatusSlash) <= Len(s)
    /\ SubSeq(s, i, i + Len(StatusSlash) - 1) = StatusSlash
    /\ s[i + Len(StatusSlash)] \in Digits

HasStatusDigits(s) == \E i \in 1..Len(s) : StatusMatchAt(s, i)

isTwitterUrl(url) ==
    LET s == ToText(url)
    IN  /\ Contains(s, TwitterCom) \/ Contains(s, XCom)
        /\ HasStatusDigits(s)

\* the greedy run of digits of s that starts at position j
RECURSIVE DigitRun(_, _)
DigitRun(s, j) ==
    IF j <= Len(s) /\ s[j] \in Digits
    THEN <<s[j]>> \o DigitRun(s, j + 1)
    ELSE <<>>

\* url.match(/status\/(\d+)/): capture group of the leftmost match, else null
\* (null is the empty sequence: a match always captures at least one digit)
extractTweetId(url) ==
    LET s == ToText(url)
    IN  IF ~HasStatusDigits(s) THEN <<>>
        ELSE LET i == CHOOSE k \in 1..Len(s) :
                        /\ StatusMatchAt(s, k)
                        /\ \A m \in 1..(k - 1) : ~StatusMatchAt(s, m)
             IN  DigitRun(s, i + Len(StatusSlash))

\* ------------------------------------------------------------------------
\* Inputs of a request
\* ------------------------------------------------------------------------
Https == <<"h","t","t","p","s",":","/","/">>

\* https://x.com/u/status/12345
UrlXStatus == Https \o XCom \o <<"/","u","/">> \o StatusSlash \o <<"1","2","3","4","5">>
\* https://twitter.com/u/status/7?s=status/9
UrlTwitterStatus == Https \o TwitterCom \o <<"/","u","/">> \o StatusSlash
                        \o <<"7","?","s","=">> \o StatusSlash \o <<"9">>
\* https://x.com/u  (Twitter domain, no status id)
UrlXNoStatus == Https \o XCom \o <<"/","u">>
\* https://x.com/u/status/  (Twitter domain, status/ without digits)
UrlXStatusNoDigits == Https \o XCom \o <<"/","u","/">> \o StatusSlash
\* https://netflix.com/status/1  (another site whose name ends in x.com)
UrlNetflixStatus == Https \o <<"n","e","t","f","l","i">> \o XCom \o <<"/">>
                        \o StatusSlash \o <<"1">>
\* https://youtu.be/status/1  (another site, with a status path)
UrlOtherStatus == Https \o <<"y","o","u","t","u",".","b","e","/">> \o StatusSlash \o <<"1">>
\* abc123, a bare YouTube video id
IdAbc == <<"a","b","c","1","2","3">>
\* xyz, another bare id
IdXyz == <<"x","y","z">>

Input(url, id) == [videoUrl |-> url, videoId |-> id]

\* the videoUrl and videoId fields of a request
RequestInputs ==
    {Input(Undefined, Undefined),
     Input(Undefined, IdXyz),
     Input(<<>>, IdXyz),
     Input(IdAbc, Undefined),
     Input(IdAbc, IdXyz),
     Input(UrlXStatus, Undefined),
     Input(Undefined, UrlXStatus),
     Input(UrlTwitterStatus, IdXyz),
     Input(UrlXNoStatus, Undefined),
     Input(Undefined, UrlXNoStatus),
     Input(UrlXStatusNoDigits, UrlXStatusNoDigits),
     Input(UrlNetflixStatus, Undefined),
     Input(Undefined, UrlOtherStatus)}

AiProviderInputs == {AiUndefined, AiNull, "", "openai", "gemini", "claude"}

\* keys the environment can hold
EnvKeys == [yt : {"", "env-youtube-key"},
            oa : {"", "env-openai-key"},
            gm : {"", "env-gemini-key"}]

\* req.body: the keys a caller can send, the provider, the video reference
Bodies ==
    {[youtubeKey |-> y, openaiKey |-> o, geminiKey |-> g, aiProvider |-> p,
      videoId |-> i.videoId, videoUrl |-> i.videoUrl] :
        y \in {"", "body-youtube-key"}, o \in {"", "body-openai-key"},
        g \in {"", "body-gemini-key"}, p \in AiProviderInputs, i \in RequestInputs}

NoBody ==
    [youtubeKey |-> "", openaiKey |-> "", geminiKey |-> "",
     aiProvider |-> AiUndefined, videoId |-> Undefined, videoUrl |-> Undefined]

\* ------------------------------------------------------------------------
\* Errors and messages
\* ------------------------------------------------------------------------
\* a thrown Error: its message (text fragments), error.response.status
\* (0 when the error has no response) and error.code ("" when it has none)
Err(msg, status, code) == [message |-> msg, status |-> status, code |-> code]

\* error.message.includes(fragment)
Includes(msg, frag) == \E i \in 1..Len(msg) : msg[i] = frag

MsgTwitterNeedsGemini == <<"Gemini API key is required for Twitter/X video processing.">>
MsgMissingFields == <<"Missing required fields: YouTube API key and video ID are required.">>
MsgOpenAIKeyRequired == <<"OpenAI API key is required when using OpenAI.">>
MsgGeminiKeyRequired == <<"Google Gemini API key is required when using Gemini.">>
MsgInvalidProvider == <<"Invalid AI provider. Must be \"openai\" or \"gemini\".">>
MsgVideoNotFound == <<"Video not found or inaccessible. Please check the video ID.">>
MsgNoTranscript == <<"No transcript could be fetched. The video may not have captions available.">>
MsgNoTweetId == <<"Could not extract tweet ID from URL">>
MsgNoTweetData == <<"Could not fetch tweet data">>
MsgNoVideoFound == <<"No video found", " in this tweet. Make sure the tweet contains a video.">>
MsgTweetNotFound == <<"Tweet not found. Make sure the tweet exists and is public.">>
MsgTimedOut == <<"Request timed out. Please try again.">>
MsgTooLarge == <<"Video is too large to process. Maximum size is 15MB.">>
MsgUnexpectedVideoFormat == <<"Unexpected Gemini response format">>
MsgTruncated == <<"Response was truncated due to token limit. Try a shorter transcript or increase token limit.">>
MsgIncomplete == <<"Gemini API returned incomplete response">>
MsgUnexpectedFormat == <<"Unexpected Gemini API response format">>
MsgModelUnavailable == <<"Required model 'gemini-2.5-flash' is not available. Please check your Gemini API access.">>
MsgUnexpected == <<"An unexpected error occurred. Please try again.">>
MsgOverloaded == <<"The AI model is currently overloaded. Please try again in a few moments.">>
MsgRateLimit == <<"API rate limit reached. Please wait a moment and try again.">>
MsgInvalidKey == <<"Invalid API key. Please check your API key and try again.">>

\* ------------------------------------------------------------------------
\* State
\* ------------------------------------------------------------------------
VARIABLES
    env,        \* process.env: the three environment keys, fixed at start
    openai,     \* the module-level `openai` client variable
    pc,         \* what the handler of the current request is awaiting
    body,       \* req.body of the current request
    calls,      \* upstream calls issued by the current request, in order
    stages,     \* pipeline functions invoked by the current request, in order
    lastReply,  \* the upstream reply the handler processed last
    responses,  \* HTTP responses sent for the current request, in order
    info,       \* fetchTranscript: the caption tracks of the loaded video info (a local: empty once fetchTranscript has returned)
    transcript, \* the extracted transcript (YouTube) / tweet record (Twitter)
    video,      \* analyzeVideoWithGemini: the located video URL and its bytes
    program,    \* the program that runs: the web server or a command line script
    files,      \* the artifact files in the working directory
    download    \* the response to the last GET /download request

vars == <<env, openai, pc, body, calls, stages, lastReply, responses,
          info, transcript, video, program, files, download>>

\* ------------------------------------------------------------------------
\* POST /summarize: key and provider resolution (lines 801-818)
\* ------------------------------------------------------------------------
finalYouTubeKey(e, b) == KeyOr(e.yt, b.youtubeKey)
finalOpenAIKey(e, b) == KeyOr(e.oa, b.openaiKey)
finalGeminiKey(e, b) == KeyOr(e.gm, b.geminiKey)

AiFalsy(p) == p \in {AiUndefined, AiNull, ""}

finalAiProvider(e, b) ==
    IF ~AiFalsy(b.aiProvider) THEN b.aiProvider
    ELSE IF finalGeminiKey(e, b) # "" THEN "gemini" ELSE "openai"

inputUrl(b) == OrElse(b.videoUrl, b.videoId)

\* the HTTP response objects
ErrorResponse(status, msg) ==
    [status |-> status, success |-> FALSE, error |-> msg,
     summary |-> <<>>, transcript |-> <<>>, source |-> ""]

SuccessResponse(summary, text, source) ==
    [status |-> 200, success |-> TRUE, error |-> <<>>,
     summary |-> summary, transcript |-> text, source |-> source]

Call(api, key, arg) == [api |-> api, key |-> key, arg |-> arg]

\* an upstream reply, tagged with the API that sent it
Reply(api, r) == [api |-> api, reply |-> r]

NoReply == Reply("", <<>>)

\* no video located yet
NoVideo == [url |-> <<>>, mime |-> ""]

\* an artifact file: transcript_<id>.txt, summary_<id>.html, summary_<id>.txt
File(kind, id, ext) == [kind |-> kind, id |-> id, ext |-> ext]

\* no download requested yet
NoDownload == [status |-> 0, file |-> File("", <<>>, "")]

Init ==
    /\ env \in EnvKeys
    /\ openai = "null"
    /\ pc = "idle"
    /\ body = NoBody
    /\ calls = <<>>
    /\ stages = <<>>
    /\ lastReply = NoReply
    /\ responses = <<>>
    /\ info = <<>>
    /\ transcript = <<>>
    /\ video = NoVideo
    /\ program = "webServer.js"
    /\ files = {}
    /\ download = NoDownload

\* ------------------------------------------------------------------------
\* Upstream replies
\* ------------------------------------------------------------------------
\* the ways an axios / fetch call fails: with an HTTP error status, with a
\* timeout (no response, code ECONNABORTED) or with a network error
HttpFailures ==
    {[status |-> 403, code |-> "ERR_BAD_REQUEST"],
     [status |-> 404, code |-> "ERR_BAD_REQUEST"],
     [status |-> 0, code |-> "ECONNABORTED"],
     [status |-> 0, code |-> "ENOTFOUND"]}

\* axios' error for a failed call
AxiosError(f) ==
    IF f.status # 0
    THEN Err(<<"Request failed with status code ", ToString(f.status)>>, f.status, f.code)
    ELSE IF f.code = "ECONNABORTED"
    THEN Err(<<"timeout exceeded">>, 0, f.code)
    ELSE Err(<<"getaddrinfo ENOTFOUND">>, 0, f.code)

\* YouTube Data API videos.list: a response with an items array of n items,
\* a response without an items field, or a failed call
VideoListReplies ==
    {[kind |-> "ok", hasItems |-> TRUE, items |-> n, status |-> 200, code |-> ""] :
        n \in 0..MaxItems}
    \cup {[kind |-> "ok", hasItems |-> FALSE, items |-> 0, status |-> 200, code |-> ""]}
    \cup {[kind |-> "error", hasItems |-> FALSE, items |-> 0,
           status |-> f.status, code |-> f.code] : f \in HttpFailures}

\* ------------------------------------------------------------------------
\* getVideoDetails (lines 224-236)
\* ------------------------------------------------------------------------
\* a mutation: the first item is returned without the length check
getVideoDetailsNoLengthCheck(reply) ==
    IF reply.kind = "ok" /\ reply.hasItems THEN "item" ELSE "null"

\* a mutation: a failed lookup is rethrown instead of swallowed
getVideoDetailsRethrow(reply) ==
    IF reply.kind = "error" THEN "throw"
    ELSE IF reply.hasItems /\ reply.items > 0 THEN "item" ELSE "null"

\* "item" (items[0]), "null", or "throw" when an exception escapes
getVideoDetails(reply) ==
    IF reply.kind = "ok" /\ reply.hasItems /\ reply.items > 0
    THEN "item"
    ELSE "null"

\* ------------------------------------------------------------------------
\* fetchTranscript (lines 241-307)
\* ------------------------------------------------------------------------
\* String.prototype.replace(/pat/g, rep) for a literal pattern: leftmost
\* matches, not overlapping, the replacement text is not scanned again
RECURSIVE ReplaceAll(_, _, _)
ReplaceAll(s, pat, rep) ==
    IF Len(s) < Len(pat) THEN s
    ELSE IF SubSeq(s, 1, Len(pat)) = pat
    THEN rep \o ReplaceAll(SubSeq(s, Len(pat) + 1, Len(s)), pat, rep)
    ELSE <<s[1]>> \o ReplaceAll(Tail(s), pat, rep)

\* .replace(/<[^>]*>/g, ' ')
RECURSIVE StripTags(_)
StripTags(s) ==
    IF s = <<>> THEN <<>>
    ELSE IF s[1] = "<" /\ \E j \in 2..Len(s) : s[j] = ">"
    THEN LET j == CHOOSE k \in 2..Len(s) :
                    s[k] = ">" /\ \A m \in 2..(k - 1) : s[m] # ">"
         IN  <<" ">> \o StripTags(SubSeq(s, j + 1, Len(s)))
    ELSE <<s[1]>> \o StripTags(Tail(s))

Whitespace == {" ", "\n", "\t"}

\* .replace(/\s+/g, ' ')
RECURSIVE CollapseSpaces(_)
CollapseSpaces(s) ==
    IF s = <<>> THEN <<>>
    ELSE IF s[1] \in Whitespace
    THEN IF Len(s) > 1 /\ s[2] \in Whitespace
         THEN CollapseSpaces(Tail(s))
         ELSE <<" ">> \o CollapseSpaces(Tail(s))
    ELSE <<s[1]>> \o CollapseSpaces(Tail(s))

\* .trim()
RECURSIVE Trim(_)
Trim(s) ==
    IF s = <<>> THEN <<>>
    ELSE IF s[1] \in Whitespace THEN Trim(Tail(s))
    ELSE IF s[Len(s)] \in Whitespace THEN Trim(SubSeq(s, 1, Len(s) - 1))
    ELSE s

\* a mutation of the chain: &amp; is unescaped first
decodeCaptionXmlAmpFirst(xml) ==
    LET s1 == StripTags(xml)
        s2 == ReplaceAll(s1, <<"&","a","m","p",";">>, <<"&">>)
        s3 == ReplaceAll(s2, <<"&","#","3","9",";">>, <<"'">>)
        s4 == ReplaceAll(s3, <<"&","q","u","o","t",";">>, <<"\"">>)
        s5 == ReplaceAll(s4, <<"&","l","t",";">>, <<"<">>)
        s6 == ReplaceAll(s5, <<"&","g","t",";">>, <<">">>)
    IN  Trim(CollapseSpaces(s6))

\* the caption XML decoding chain of lines 271-279
decodeCaptionXml(xml) ==
    LET s1 == StripTags(xml)
        s2 == ReplaceAll(s1, <<"&","#","3","9",";">>, <<"'">>)
        s3 == ReplaceAll(s2, <<"&","q","u","o","t",";">>, <<"\"">>)
        s4 == ReplaceAll(s3, <<"&","a","m","p",";">>, <<"&">>)
        s5 == ReplaceAll(s4, <<"&","l","t",";">>, <<"<">>)
        s6 == ReplaceAll(s5, <<"&","g","t",";">>, <<">">>)
    IN  Trim(CollapseSpaces(s6))

\* caption documents an upstream caption URL can serve
\* <t>Hi &amp; bye</t>
XmlHi == <<"<","t",">","H","i"," ","&","a","m","p",";"," ","b","y","e","<","/","t",">">>
\* <t> </t>
XmlBlank == <<"<","t",">"," ","<","/","t",">">>

\* &amp;amp;
XmlAmpAmp == <<"&","a","m","p",";","a","m","p",";">>
\* &amp;quot;test&amp;quot;
XmlAmpQuot == <<"&","a","m","p",";","q","u","o","t",";","t","e","s","t",
                "&","a","m","p",";","q","u","o","t",";">>
\* &lt;b&gt;x
XmlLtB == <<"&","l","t",";","b","&","g","t",";","x">>

\* a &amp;lt; b
XmlAmpLt == <<"a"," ","&","a","m","p",";","l","t",";"," ","b">>

CaptionDocs == {XmlHi, XmlBlank, XmlAmpAmp, XmlAmpQuot, XmlLtB, XmlAmpLt}

\* caption tracks of a video: language code and base_url ("" when missing)
TrackEn == [language_code |-> "en", base_url |-> "https://captions/en"]
TrackFr == [language_code |-> "fr", base_url |-> "https://captions/fr"]
TrackNoUrl == [language_code |-> "de", base_url |-> ""]

CaptionTrackLists ==
    {<<>>, <<TrackEn>>, <<TrackFr, TrackEn>>, <<TrackFr, TrackNoUrl>>, <<TrackNoUrl>>}

\* caption_tracks.find(track => track.language_code === 'en') || caption_tracks[0]
RECURSIVE FindEn(_)
FindEn(tracks) ==
    IF tracks = <<>> THEN <<>>
    ELSE IF Head(tracks).language_code = "en" THEN <<Head(tracks)>>
    ELSE FindEn(Tail(tracks))

\* a mutation: the first track is used whatever its language
captionTrackFirst(tracks) == Head(tracks)

captionTrack(tracks) ==
    IF FindEn(tracks) # <<>> THEN Head(FindEn(tracks)) ELSE Head(tracks)

\* segments of a structured transcript: the snippet text of each
SegHello == <<"H","e","l","l","o">>
SegWorld == <<"w","o","r","l","d">>

SegmentLists ==
    {<<>>, <<SegHello>>, <<SegHello, SegWorld>>, <<SegHello, <<>>, SegWorld>>, <<<<>>>>}

\* segments.map(seg => seg.snippet?.text || '').filter(Boolean).join(' ')
RECURSIVE JoinSegments(_)
JoinSegments(segs) ==
    IF segs = <<>> THEN <<>>
    ELSE IF Head(segs) = <<>> THEN JoinSegments(Tail(segs))
    ELSE LET rest == JoinSegments(Tail(segs))
         IN  IF rest = <<>> THEN Head(segs) ELSE Head(segs) \o <<" ">> \o rest

\* info.getTranscript(): throws, or yields data without a transcript object,
\* or a transcript with a list of segments
TranscriptReplies ==
    {[kind |-> "throw", segments |-> <<>>], [kind |-> "nodata", segments |-> <<>>]}
    \cup {[kind |-> "ok", segments |-> sl] : sl \in SegmentLists}

\* ------------------------------------------------------------------------
\* Summarizer backends
\* ------------------------------------------------------------------------
\* the outcome of a function: a returned value or a thrown error
Return(v) == [kind |-> "return", value |-> v, err |-> Err(<<>>, 0, "")]
Throw(e) == [kind |-> "throw", value |-> <<>>, err |-> e]

\* a summary text as the model produces it
SummaryText == <<"<h3>Key Takeaways</h3><ul><li>point</li></ul>">>

\* summarizeTranscript (line 310): the default value of its aiProvider
\* parameter applies when the argument is undefined
summarizeProvider(p) == IF p = AiUndefined THEN "openai" ELSE p

\* new OpenAI({ apiKey }): the client falls back to the environment's
\* OPENAI_API_KEY when apiKey is undefined
openAIClientKey(apiKey, e) == IF apiKey # "" THEN apiKey ELSE e.oa

\* openai.chat.completions.create: a completion with some content, a
\* response without choices, or an API error
OpenAIReplies ==
    {[kind |-> "ok", content |-> SummaryText, message |-> <<>>],
     [kind |-> "ok", content |-> <<>>, message |-> <<>>],
     [kind |-> "nochoices", content |-> <<>>, message |-> <<>>],
     [kind |-> "error", content |-> <<>>,
      message |-> <<"401", " Incorrect API key provided">>],
     [kind |-> "error", content |-> <<>>,
      message |-> <<"429", " You exceeded your current ", "quota">>],
     [kind |-> "error", content |-> <<>>,
      message |-> <<"500", " The server had an error">>]}

\* a mutation: an API error is returned as text instead of thrown
summarizeWithOpenAIErrorAsText(r) ==
    IF r.kind = "error" THEN Return(r.message)
    ELSE IF r.kind = "nochoices"
    THEN Throw(Err(<<"Cannot read properties of undefined (reading 'message')">>, 0, ""))
    ELSE Return(r.content)

\* summarizeWithOpenAI (lines 327-367)
summarizeWithOpenAI(r) ==
    IF r.kind = "error" THEN Throw(Err(r.message, 0, ""))
    ELSE IF r.kind = "nochoices"
    THEN Throw(Err(<<"Cannot read properties of undefined (reading 'message')">>, 0, ""))
    ELSE Return(r.content)

\* names in a Gemini model listing, as the API spells them
ModelFlash == <<"models/", "gemini-2.5-flash">>
ModelPro == <<"models/", "gemini-2.5-pro">>

\* m.name.replace('models/', '')
StripModelsPrefix(name) ==
    IF name # <<>> /\ Head(name) = "models/" THEN Tail(name) ELSE name

\* GET /v1beta/models: the call fails, answers not-ok, or lists models
GeminiModelsReplies ==
    {[kind |-> "reject", hasModels |-> FALSE, models |-> {}, message |-> <<>>],
     [kind |-> "notok", hasModels |-> FALSE, models |-> {},
      message |-> <<"API key not valid. Please pass a valid API key.">>],
     [kind |-> "notok", hasModels |-> FALSE, models |-> {}, message |-> <<>>],
     [kind |-> "ok", hasModels |-> FALSE, models |-> {}, message |-> <<>>],
     [kind |-> "ok", hasModels |-> TRUE, models |-> {}, message |-> <<>>],
     [kind |-> "ok", hasModels |-> TRUE, models |-> {ModelPro}, message |-> <<>>],
     [kind |-> "ok", hasModels |-> TRUE, models |-> {ModelFlash}, message |-> <<>>],
     [kind |-> "ok", hasModels |-> TRUE, models |-> {ModelPro, ModelFlash},
      message |-> <<>>]}

\* a mutation: the outcome of the model listing is not inspected
geminiModelToUseUnchecked(r) == Return(<<"gemini-2.5-flash">>)

\* summarizeWithGemini, key validation and model selection (lines 370-399):
\* the model to use, or the error thrown
geminiModelToUse(r) ==
    IF r.kind = "reject" THEN Throw(Err(<<"fetch failed">>, 0, ""))
    ELSE IF r.kind = "notok"
    THEN Throw(Err(<<"Invalid Gemini API key: ">>
                     \o (IF r.message # <<>> THEN r.message ELSE <<"Unknown error">>),
                   0, ""))
    ELSE LET availableModels ==
                 IF r.hasModels THEN {StripModelsPrefix(m) : m \in r.models} ELSE {}
         IN  IF <<"gemini-2.5-flash">> \notin availableModels
             THEN Throw(Err(MsgModelUnavailable, 0, ""))
             ELSE Return(<<"gemini-2.5-flash">>)

\* POST .../models/<model>:generateContent
GenReply(kind, status, errText, hasCandidate, finishReason, hasParts, text) ==
    [kind |-> kind, status |-> status, errText |-> errText,
     hasCandidate |-> hasCandidate, finishReason |-> finishReason,
     hasParts |-> hasParts, text |-> text]

GeminiGenerateReplies ==
    {GenReply("reject", "", <<>>, FALSE, "", FALSE, <<>>),
     GenReply("notok", "429", <<"Resource exhausted: ", "quota">>, FALSE, "", FALSE, <<>>),
     GenReply("notok", "503", <<"The model is ", "overloaded">>, FALSE, "", FALSE, <<>>),
     GenReply("notok", "400", <<>>, FALSE, "", FALSE, <<>>),
     GenReply("ok", "200", <<>>, FALSE, "", FALSE, <<>>),
     GenReply("ok", "200", <<>>, TRUE, "STOP", TRUE, SummaryText),
     GenReply("ok", "200", <<>>, TRUE, "STOP", TRUE, <<>>),
     GenReply("ok", "200", <<>>, TRUE, "STOP", FALSE, <<>>),
     GenReply("ok", "200", <<>>, TRUE, "MAX_TOKENS", TRUE, SummaryText),
     GenReply("ok", "200", <<>>, TRUE, "MAX_TOKENS", FALSE, <<>>)}

\* summarizeWithGemini, the generation call (lines 423-469)
summarizeWithGemini(r) ==
    IF r.kind = "reject" THEN Throw(Err(<<"fetch failed">>, 0, ""))
    ELSE IF r.kind = "notok"
    THEN Throw(Err(<<"Gemini API error", ": ", r.status, " - ">> \o r.errText, 0, ""))
    ELSE IF ~r.hasCandidate THEN Throw(Err(MsgUnexpectedFormat, 0, ""))
    ELSE IF r.finishReason = "MAX_TOKENS" THEN Throw(Err(MsgTruncated, 0, ""))
    ELSE IF r.hasParts THEN Return(r.text)
    ELSE Throw(Err(MsgIncomplete, 0, ""))

\* ------------------------------------------------------------------------
\* POST /summarize, YouTube path: validation and error mapping
\* ------------------------------------------------------------------------
\* the 400 message of lines 854-876, or <<>> when the request passes
youTubeRejection(e, b) ==
    IF finalYouTubeKey(e, b) = "" \/ ~Truthy(b.videoId) THEN MsgMissingFields
    ELSE IF finalAiProvider(e, b) = "openai" /\ finalOpenAIKey(e, b) = ""
    THEN MsgOpenAIKeyRequired
    ELSE IF finalAiProvider(e, b) = "gemini" /\ finalGeminiKey(e, b) = ""
    THEN MsgGeminiKeyRequired
    ELSE IF finalAiProvider(e, b) \notin {"openai", "gemini"} THEN MsgInvalidProvider
    ELSE <<>>

\* the arguments the handler passes to summarizeTranscript (lines 901-902)
summarizeArgKey(e, b) ==
    IF b.aiProvider = "openai" THEN finalOpenAIKey(e, b) ELSE finalGeminiKey(e, b)

summarizeArgProvider(e, b) == b.aiProvider

\* the catch block of the YouTube path (lines 924-945)
userMessage(err) ==
    IF err.message = <<>> THEN MsgUnexpected
    ELSE IF Includes(err.message, "overloaded") \/ Includes(err.message, "503")
    THEN MsgOverloaded
    ELSE IF Includes(err.message, "quota") \/ Includes(err.message, "429")
    THEN MsgRateLimit
    ELSE IF Includes(err.message, "Invalid API key") \/ Includes(err.message, "401")
    THEN MsgInvalidKey
    ELSE err.message

\* ------------------------------------------------------------------------
\* Twitter path: processTwitterVideo and analyzeVideoWithGemini
\* ------------------------------------------------------------------------
\* 15 * 1024 * 1024 bytes, in MiB (axios maxContentLength)
MaxContentLengthMiB == 15

\* video URLs: text fragments, <<>> for a missing or empty url
UrlMp4 == <<"https://video.twimg.com/a", ".mp4">>
UrlWebm == <<"https://video.twimg.com/b", ".webm">>
UrlMov == <<"https://video.twimg.com/c", ".mov">>

Media(videos, all) == [videos |-> videos, all |-> all]
Video(url, variants) == [url |-> url, variants |-> variants]
Item(type, url) == [type |-> type, url |-> url]

\* the media of a tweet: media.videos and media.all (empty when missing)
MediaShapes ==
    {Media(<<>>, <<>>),
     Media(<<Video(UrlMp4, <<>>)>>, <<>>),
     Media(<<Video(<<>>, <<UrlMp4, UrlWebm>>)>>, <<>>),
     Media(<<Video(<<>>, <<>>)>>, <<Item("video", UrlMov)>>),
     Media(<<>>, <<Item("photo", UrlMp4), Item("video", UrlMov)>>),
     Media(<<>>, <<Item("video", <<>>)>>)}

\* the loop of lines 83-88: url of the first item of type video with a url
RECURSIVE FirstVideoItemUrl(_)
FirstVideoItemUrl(all) ==
    IF all = <<>> THEN <<>>
    ELSE IF Head(all).type = "video" /\ Head(all).url # <<>> THEN Head(all).url
    ELSE FirstVideoItemUrl(Tail(all))

\* video URL selection (lines 76-89)
selectVideoUrl(media) ==
    IF Len(media.videos) > 0
    THEN LET v == media.videos[1]
         IN  IF v.url # <<>> THEN v.url
             ELSE IF v.variants # <<>> THEN v.variants[Len(v.variants)]
             ELSE <<>>
    ELSE IF Len(media.all) > 0 THEN FirstVideoItemUrl(media.all)
    ELSE <<>>

\* mirror API replies: a failed call, a body without a tweet, or a tweet
TweetReplies ==
    {[kind |-> "error", status |-> f.status, code |-> f.code, media |-> Media(<<>>, <<>>)] :
        f \in HttpFailures}
    \cup {[kind |-> "notweet", status |-> 200, code |-> "", media |-> Media(<<>>, <<>>)]}
    \cup {[kind |-> "tweet", status |-> 200, code |-> "", media |-> m] : m \in MediaShapes}

\* video download replies: a failed call, or a body of some size in MiB
DownloadReplies ==
    {[kind |-> "error", status |-> f.status, code |-> f.code, size |-> 0] :
        f \in HttpFailures}
    \cup {[kind |-> "body", status |-> 200, code |-> "", size |-> n] :
            n \in {1, MaxContentLengthMiB, MaxContentLengthMiB + 1}}

\* a mutation of the download: no maxContentLength option
videoDownloadUncapped(r) ==
    IF r.kind = "error" THEN Throw(AxiosError(r)) ELSE Return(<<"bytes">>)

\* axios.get(videoUrl, { maxContentLength: 15 MiB, ... }) of lines 134-141
videoDownload(r) ==
    IF r.kind = "error" THEN Throw(AxiosError(r))
    ELSE IF r.size > MaxContentLengthMiB
    THEN Throw(Err(<<"maxContentLength", " size of 15728640 exceeded">>, 0, "ERR_BAD_RESPONSE"))
    ELSE Return(<<"bytes">>)

\* mime type from the URL (lines 148-150)
mimeType(url) ==
    IF Includes(url, ".webm") THEN "video/webm"
    ELSE IF Includes(url, ".mov") THEN "video/mov"
    ELSE "video/mp4"

\* the generation call of analyzeVideoWithGemini (lines 199-211)
analyzeVideoGenerate(r) ==
    IF r.kind = "reject" THEN Throw(Err(<<"fetch failed">>, 0, ""))
    ELSE IF r.kind = "notok"
    THEN Throw(Err(<<"Gemini API error", ": ">>
                     \o (IF r.errText # <<>> THEN r.errText ELSE <<"Bad Request">>),
                   0, ""))
    ELSE IF r.hasCandidate /\ r.hasParts /\ r.text # <<>> THEN Return(r.text)
    ELSE Throw(Err(MsgUnexpectedVideoFormat, 0, ""))

\* the catch block of analyzeVideoWithGemini (lines 213-218)
analyzeCatch(err) ==
    IF Includes(err.message, "maxContentLength")
    THEN Err(MsgTooLarge, 0, "")
    ELSE err

\* a mutation of the catch block: error.response.status is not inspected
twitterCatchNoStatusCheck(err) ==
    IF Includes(err.message, "No video found") THEN err
    ELSE IF err.code = "ECONNABORTED" THEN Err(MsgTimedOut, 0, "")
    ELSE Err(<<"Failed to process Twitter video: ">> \o err.message, 0, "")

\* the catch block of processTwitterVideo (lines 107-120)
twitterCatch(err) ==
    IF Includes(err.message, "No video found") THEN err
    ELSE IF err.status = 404 THEN Err(MsgTweetNotFound, 0, "")
    ELSE IF err.code = "ECONNABORTED" THEN Err(MsgTimedOut, 0, "")
    ELSE Err(<<"Failed to process Twitter video: ">> \o err.message, 0, "")

\* the catch block of the Twitter path of the handler (lines 844-849)
twitterErrorMessage(err) ==
    IF err.message # <<>> THEN err.message ELSE <<"Failed to process Twitter video.">>

\* a mutation of the Twitter precondition: the key is not checked
twitterPreconditionSkipped(e, b) == TRUE

\* the Twitter precondition of line 822
twitterPrecondition(e, b) == finalGeminiKey(e, b) # ""

\* ------------------------------------------------------------------------
\* Steps of the handler
\* ------------------------------------------------------------------------
\* what a piece of handler code does before it suspends or ends: the await
\* it stops at, the upstream calls it issued, the pipeline functions it
\* invoked and the responses it sent
Out(pcv, cs, ss, rs) == [pc |-> pcv, calls |-> cs, stages |-> ss, responses |-> rs]

Fail(status, msg) == Out("done", <<>>, <<>>, <<ErrorResponse(status, msg)>>)

Step(o) ==
    /\ pc' = o.pc
    /\ calls' = calls \o o.calls
    /\ stages' = stages \o o.stages
    /\ responses' = responses \o o.responses


TypeErrorOf(what) ==
    Err(<<"Cannot read properties of ", what, " (reading 'toUpperCase')">>, 0, "")

\* lines 816-880 and 44-63: classification, validation and the first call
receive(e, b) ==
    IF isTwitterUrl(inputUrl(b))
    THEN IF ~twitterPrecondition(e, b) THEN Fail(400, MsgTwitterNeedsGemini)
         ELSE IF extractTweetId(inputUrl(b)) = <<>>
         THEN Fail(500, twitterErrorMessage(Err(MsgNoTweetId, 0, "")))
         ELSE Out("awaitTweet",
                  <<Call("fxtwitter.status", "", extractTweetId(inputUrl(b)))>>,
                  <<"metadata">>, <<>>)
    ELSE IF youTubeRejection(e, b) # <<>> THEN Fail(400, youTubeRejection(e, b))
    ELSE Out("awaitVideoDetails",
             <<Call("youtube.videos", finalYouTubeKey(e, b), b.videoId)>>,
             <<"metadata">>, <<>>)

\* a mutation: a video that is not found is answered with status 400
afterVideoDetailsBadRequest(e, b, r) ==
    IF getVideoDetails(r) = "item"
    THEN Out("awaitInnertube", <<Call("innertube.create", "", <<>>)>>, <<"extraction">>, <<>>)
    ELSE Fail(400, MsgVideoNotFound)

\* a mutation: the 404 of the existence check is sent without `return`
afterVideoDetailsNoReturn(e, b, r) ==
    Out("awaitInnertube", <<Call("innertube.create", "", <<>>)>>, <<"extraction">>,
        IF getVideoDetails(r) = "item" THEN <<>>
        ELSE <<ErrorResponse(404, MsgVideoNotFound)>>)

\* lines 880-891 and 241-251: the existence check, then fetchTranscript starts
afterVideoDetails(e, b, r) ==
    IF getVideoDetails(r) = "throw" THEN Fail(500, userMessage(AxiosError(r)))
    ELSE IF getVideoDetails(r) = "null" THEN Fail(404, MsgVideoNotFound)
    ELSE Out("awaitInnertube", <<Call("innertube.create", "", <<>>)>>,
             <<"extraction">>, <<>>)

\* lines 898-902 and 310-330, 369-373: summarizeTranscript is called with the
\* transcript and dispatches to a backend
startSummarize(e, b) ==
    LET p == summarizeArgProvider(e, b)
        key == summarizeArgKey(e, b)
    IN  IF p = AiNull
        THEN [Fail(500, userMessage(TypeErrorOf("null"))) EXCEPT !.stages = <<"summarization">>]
        ELSE IF summarizeProvider(p) = "openai"
        THEN IF openAIClientKey(key, e) = ""
             THEN [Fail(500, userMessage(Err(<<"The OPENAI_API_KEY environment variable is missing or empty">>, 0, "")))
                     EXCEPT !.stages = <<"summarization">>]
             ELSE Out("awaitOpenAI", <<Call("openai.chat", openAIClientKey(key, e), <<>>)>>,
                      <<"summarization">>, <<>>)
        ELSE IF summarizeProvider(p) = "gemini"
        THEN Out("awaitGeminiModels", <<Call("gemini.models", key, <<>>)>>,
                 <<"summarization">>, <<>>)
        ELSE [Fail(500, userMessage(Err(<<"Unsupported AI provider: ", p>>, 0, "")))
                EXCEPT !.stages = <<"summarization">>]

\* a mutation: the transcript is not checked before it is summarized
afterTranscriptUnchecked(e, b, text) == startSummarize(e, b)

\* lines 891-896: the transcript check; text is <<>> for null or ''
afterTranscript(e, b, text) ==
    IF text = <<>> THEN Fail(404, MsgNoTranscript) ELSE startSummarize(e, b)

\* a mutation: the summary is not checked before the success response
afterSummaryUnchecked(e, b, text, result) ==
    IF result.kind = "throw" THEN Fail(500, userMessage(result.err))
    ELSE Out("done", <<>>, <<"rendering">>, <<SuccessResponse(result.value, text, "")>>)

\* lines 903-922 and 924-950: the summary check, rendering and the response
afterSummary(e, b, text, result) ==
    IF result.kind = "throw" THEN Fail(500, userMessage(result.err))
    ELSE IF result.value = <<>>
    THEN IF b.aiProvider = AiUndefined THEN Fail(500, userMessage(TypeErrorOf("undefined")))
         ELSE IF b.aiProvider = AiNull THEN Fail(500, userMessage(TypeErrorOf("null")))
         ELSE Fail(500, <<"Failed to generate summary with ", b.aiProvider,
                          ". Please check your API key and try again.">>)
    ELSE Out("done", <<>>, <<"rendering">>, <<SuccessResponse(result.value, text, "")>>)

\* POST /summarize arrives
Receive(b) ==
    /\ pc = "idle"
    /\ body' = b
    /\ lastReply' = NoReply
    /\ info' = <<>>
    /\ transcript' = <<>>
    /\ video' = NoVideo
    /\ LET o == receive(env, b)
       IN  /\ pc' = o.pc
           /\ calls' = o.calls
           /\ stages' = o.stages
           /\ responses' = o.responses
    /\ UNCHANGED <<program, files, download, env, openai>>

\* the YouTube Data API answers the lookup of getVideoDetails
VideoDetailsReply(r) ==
    /\ pc = "awaitVideoDetails"
    /\ lastReply' = Reply("youtube.videos", r)
    /\ Step(afterVideoDetails(env, body, r))
    /\ UNCHANGED <<program, files, download, env, openai, body, info, transcript, video>>

\* Innertube.create ends (lines 245-253)
InnertubeReply(ok) ==
    /\ pc = "awaitInnertube"
    /\ lastReply' = Reply("innertube.create", ok)
    /\ Step(IF ok
            THEN Out("awaitInfo", <<Call("innertube.getInfo", "", body.videoId)>>, <<>>, <<>>)
            ELSE afterTranscript(env, body, <<>>))
    /\ UNCHANGED <<program, files, download, env, openai, body, info, transcript, video>>

\* youtube.getInfo ends (lines 253-258)
InfoReply(r) ==
    /\ pc = "awaitInfo"
    /\ lastReply' = Reply("innertube.getInfo", r)
    /\ info' = IF r.kind = "ok" THEN r.tracks ELSE <<>>
    /\ Step(IF r.kind = "ok"
            THEN Out("awaitTranscript", <<Call("innertube.getTranscript", "", body.videoId)>>,
                     <<>>, <<>>)
            ELSE afterTranscript(env, body, <<>>))
    /\ UNCHANGED <<program, files, download, env, openai, body, transcript, video>>

\* the text fetchTranscript returns once info.getTranscript has ended without
\* a caption download (lines 259-268 and 288-305); <<>> is null or ''
transcriptWithoutFallback(r) ==
    IF r.kind = "ok" /\ Len(r.segments) > 0 THEN JoinSegments(r.segments) ELSE <<>>

\* a mutation: the fallback also runs when the call yields no transcript
usesCaptionFallbackOnNoData(r, tracks) ==
    /\ r.kind \in {"throw", "nodata"}
    /\ Len(tracks) > 0
    /\ captionTrack(tracks).base_url # ""

\* the caption fallback applies (lines 259-268)
usesCaptionFallback(r, tracks) ==
    /\ r.kind = "throw"
    /\ Len(tracks) > 0
    /\ captionTrack(tracks).base_url # ""

\* info.getTranscript ends (lines 258-302)
TranscriptReply(r) ==
    /\ pc = "awaitTranscript"
    /\ lastReply' = Reply("innertube.getTranscript", r)
    /\ IF usesCaptionFallback(r, info)
       THEN /\ Step(Out("awaitCaption",
                        <<Call("captions.get", "", <<captionTrack(info).base_url>>)>>,
                        <<>>, <<>>))
            /\ UNCHANGED <<transcript, info>>
       ELSE /\ Step(afterTranscript(env, body, transcriptWithoutFallback(r)))
            /\ transcript' = transcriptWithoutFallback(r)
            /\ info' = <<>>
    /\ UNCHANGED <<program, files, download, env, openai, body, video>>

\* the caption document download ends (lines 269-288)
CaptionReply(r) ==
    /\ pc = "awaitCaption"
    /\ lastReply' = Reply("captions.get", r)
    /\ LET text == IF r.kind = "ok" THEN decodeCaptionXml(r.doc) ELSE <<>>
       IN  /\ Step(afterTranscript(env, body, text))
           /\ transcript' = text
    /\ info' = <<>>
    /\ UNCHANGED <<program, files, download, env, openai, body, video>>

\* the chat completion call of summarizeWithOpenAI ends
OpenAIReply(r) ==
    /\ pc = "awaitOpenAI"
    /\ lastReply' = Reply("openai.chat", r)
    /\ Step(afterSummary(env, body, transcript, summarizeWithOpenAI(r)))
    /\ UNCHANGED <<program, files, download, env, openai, body, info, transcript, video>>

\* the model listing call of summarizeWithGemini ends
GeminiModelsReply(r) ==
    /\ pc = "awaitGeminiModels"
    /\ lastReply' = Reply("gemini.models", r)
    /\ Step(IF geminiModelToUse(r).kind = "throw"
            THEN afterSummary(env, body, transcript, geminiModelToUse(r))
            ELSE Out("awaitGeminiGenerate",
                     <<Call("gemini.generate", summarizeArgKey(env, body),
                            geminiModelToUse(r).value)>>,
                     <<>>, <<>>))
    /\ UNCHANGED <<program, files, download, env, openai, body, info, transcript, video>>

\* the generation call of summarizeWithGemini ends
GeminiGenerateReply(r) ==
    /\ pc = "awaitGeminiGenerate"
    /\ lastReply' = Reply("gemini.generate", r)
    /\ Step(afterSummary(env, body, transcript, summarizeWithGemini(r)))
    /\ UNCHANGED <<program, files, download, env, openai, body, info, transcript, video>>

InfoReplies ==
    {[kind |-> "throw", tracks |-> <<>>]}
    \cup {[kind |-> "ok", tracks |-> tl] : tl \in CaptionTrackLists}

CaptionDocReplies ==
    {[kind |-> "error", doc |-> <<>>]} \cup {[kind |-> "ok", doc |-> d] : d \in CaptionDocs}

\* lines 65-98 and 126-141: the tweet check, the video URL, the download call
afterTweet(e, b, r) ==
    IF r.kind = "error"
    THEN Fail(500, twitterErrorMessage(twitterCatch(AxiosError(r))))
    ELSE IF r.kind = "notweet"
    THEN Fail(500, twitterErrorMessage(twitterCatch(Err(MsgNoTweetData, 0, ""))))
    ELSE IF selectVideoUrl(r.media) = <<>>
    THEN Fail(500, twitterErrorMessage(twitterCatch(Err(MsgNoVideoFound, 0, ""))))
    ELSE Out("awaitVideo", <<Call("video.download", "", selectVideoUrl(r.media))>>,
             <<"extraction">>, <<>>)

\* lines 143-197: the downloaded bytes go to the generation endpoint
afterDownload(e, b, r) ==
    IF videoDownload(r).kind = "throw"
    THEN Fail(500, twitterErrorMessage(twitterCatch(analyzeCatch(videoDownload(r).err))))
    ELSE Out("awaitVideoGenerate",
             <<Call("gemini.generate", finalGeminiKey(e, b), <<"gemini-2.5-flash">>)>>,
             <<"summarization">>, <<>>)

\* lines 199-219, 100-120 and 833-849: the analysis result and the response
afterVideoGenerate(e, b, r) ==
    IF analyzeVideoGenerate(r).kind = "throw"
    THEN Fail(500, twitterErrorMessage(twitterCatch(analyzeCatch(analyzeVideoGenerate(r).err))))
    ELSE Out("done", <<>>, <<"rendering">>,
             <<SuccessResponse(analyzeVideoGenerate(r).value,
                               <<"Tweet: ", "[Video content analyzed by AI]">>, "twitter")>>)

\* the mirror API answers the lookup of processTwitterVideo
TweetReply(r) ==
    /\ pc = "awaitTweet"
    /\ lastReply' = Reply("fxtwitter.status", r)
    /\ Step(afterTweet(env, body, r))
    /\ video' = IF r.kind = "tweet" /\ selectVideoUrl(r.media) # <<>>
                THEN [url |-> selectVideoUrl(r.media), mime |-> mimeType(selectVideoUrl(r.media))]
                ELSE video
    /\ UNCHANGED <<program, files, download, env, openai, body, info, transcript>>

\* the video download of analyzeVideoWithGemini ends
DownloadReply(r) ==
    /\ pc = "awaitVideo"
    /\ lastReply' = Reply("video.download", r)
    /\ Step(afterDownload(env, body, r))
    /\ UNCHANGED <<program, files, download, env, openai, body, info, transcript, video>>

\* the generation call of analyzeVideoWithGemini ends
VideoGenerateReply(r) ==
    /\ pc = "awaitVideoGenerate"
    /\ lastReply' = Reply("gemini.generate", r)
    /\ Step(afterVideoGenerate(env, body, r))
    /\ UNCHANGED <<program, files, download, env, openai, body, info, transcript, video>>

Next ==
    \/ \E b \in Bodies : Receive(b)
    \/ \E r \in VideoListReplies : VideoDetailsReply(r)
    \/ \E ok \in BOOLEAN : InnertubeReply(ok)
    \/ \E r \in InfoReplies : InfoReply(r)
    \/ \E r \in TranscriptReplies : TranscriptReply(r)
    \/ \E r \in CaptionDocReplies : CaptionReply(r)
    \/ \E r \in OpenAIReplies : OpenAIReply(r)
    \/ \E r \in GeminiModelsReplies : GeminiModelsReply(r)
    \/ \E r \in GeminiGenerateReplies : GeminiGenerateReply(r)
    \/ \E r \in TweetReplies : TweetReply(r)
    \/ \E r \in DownloadReplies : DownloadReply(r)
    \/ \E r \in GeminiGenerateReplies : VideoGenerateReply(r)

Spec == Init /\ [][Next]_vars

\* ------------------------------------------------------------------------
\* The command line scripts (src/unnamed/part_000 and part_001)
\* ------------------------------------------------------------------------
\* the two scripts: part_000 writes the summary as HTML, part_001 as text
Scripts == {"part_000", "part_001"}

\* process.argv[2]
ScriptArgs == {Undefined, IdXyz, IdAbc}

\* segments.map(seg => seg.snippet.text).join(' ')
RECURSIVE JoinAll(_)
JoinAll(segs) ==
    IF segs = <<>> THEN <<>>
    ELSE IF Len(segs) = 1 THEN Head(segs)
    ELSE Head(segs) \o <<" ">> \o JoinAll(Tail(segs))

\* fetchTranscript of the scripts, once info.getTranscript has ended: the
\* text, <<>> for null or ''
scriptTranscript(r) ==
    IF r.kind = "ok" /\ Len(r.segments) > 0 THEN JoinAll(r.segments) ELSE <<>>

\* summarizeTranscript of the scripts: the content, <<>> for null (an error
\* is caught and logged) or ''
scriptSummary(r) == IF r.kind = "ok" THEN r.content ELSE <<>>

\* a mutation: the transcript is not saved when it has been fetched
writeTranscriptSkipped(fs, id) == fs

\* fs.writeFileSync(`transcript_${videoId}.txt`, transcript)
writeTranscript(fs, id) == fs \cup {File("transcript", id, "txt")}

\* fs.writeFileSync(summaryFilename, ...): summary_<id>.html or summary_<id>.txt
writeSummary(fs, id, script) ==
    fs \cup {File("summary", id, IF script = "part_000" THEN "html" ELSE "txt")}

InitScript ==
    /\ env \in EnvKeys
    /\ program \in Scripts
    /\ openai = "null"
    /\ pc = "start"
    /\ body = NoBody
    /\ calls = <<>>
    /\ stages = <<>>
    /\ lastReply = NoReply
    /\ responses = <<>>
    /\ info = <<>>
    /\ transcript = <<>>
    /\ video = NoVideo
    /\ files = {}
    /\ download = NoDownload

\* the script starts with argument id: the checks of the environment and of
\* the argument, the client, and run() up to its first await
ScriptStart(id) ==
    /\ pc = "start"
    /\ body' = [body EXCEPT !.videoId = id]
    /\ IF env.yt = "" \/ env.oa = ""
       THEN pc' = "exit" /\ UNCHANGED <<openai, calls>>
       ELSE /\ openai' = env.oa
            /\ IF ~Truthy(id)
               THEN pc' = "exit" /\ UNCHANGED calls
               ELSE /\ pc' = "awaitVideoDetails"
                    /\ calls' = <<Call("youtube.videos", env.yt, id)>>
    /\ UNCHANGED <<env, program, stages, lastReply, responses, info, transcript,
                   video, files, download>>

\* getVideoDetails ends: the script exits when the video was not found
ScriptVideoDetailsReply(r) ==
    /\ pc = "awaitVideoDetails"
    /\ lastReply' = Reply("youtube.videos", r)
    /\ IF getVideoDetails(r) = "item"
       THEN /\ pc' = "awaitInnertube"
            /\ calls' = calls \o <<Call("innertube.create", "", <<>>)>>
       ELSE pc' = "exit" /\ UNCHANGED calls
    /\ UNCHANGED <<env, program, openai, body, stages, responses, info, transcript,
                   video, files, download>>

ScriptInnertubeReply(ok) ==
    /\ pc = "awaitInnertube"
    /\ lastReply' = Reply("innertube.create", ok)
    /\ IF ok
       THEN /\ pc' = "awaitInfo"
            /\ calls' = calls \o <<Call("innertube.getInfo", "", body.videoId)>>
       ELSE pc' = "done" /\ UNCHANGED calls
    /\ UNCHANGED <<env, program, openai, body, stages, responses, info, transcript,
                   video, files, download>>

ScriptInfoReply(r) ==
    /\ pc = "awaitInfo"
    /\ lastReply' = Reply("innertube.getInfo", r)
    /\ IF r.kind = "ok"
       THEN /\ pc' = "awaitTranscript"
            /\ calls' = calls \o <<Call("innertube.getTranscript", "", body.videoId)>>
       ELSE pc' = "done" /\ UNCHANGED calls
    /\ UNCHANGED <<env, program, openai, body, stages, responses, info, transcript,
                   video, files, download>>

\* fetchTranscript returns: the transcript file is written, then
\* summarizeTranscript starts
ScriptTranscriptReply(r) ==
    /\ pc = "awaitTranscript"
    /\ lastReply' = Reply("innertube.getTranscript", r)
    /\ transcript' = scriptTranscript(r)
    /\ IF scriptTranscript(r) # <<>>
       THEN /\ files' = writeTranscript(files, body.videoId)
            /\ pc' = "awaitOpenAI"
            /\ calls' = calls \o <<Call("openai.chat", env.oa, <<>>)>>
       ELSE pc' = "done" /\ UNCHANGED <<files, calls>>
    /\ UNCHANGED <<env, program, openai, body, stages, responses, info, video, download>>

\* summarizeTranscript returns: the summary file is written if there is one
ScriptOpenAIReply(r) ==
    /\ pc = "awaitOpenAI"
    /\ lastReply' = Reply("openai.chat", r)
    /\ files' = IF scriptSummary(r) # <<>>
                THEN writeSummary(files, body.videoId, program)
                ELSE files
    /\ pc' = "done"
    /\ UNCHANGED <<env, program, openai, body, calls, stages, responses, info,
                   transcript, video, download>>

NextScript ==
    \/ \E id \in ScriptArgs : ScriptStart(id)
    \/ \E r \in VideoListReplies : ScriptVideoDetailsReply(r)
    \/ \E ok \in BOOLEAN : ScriptInnertubeReply(ok)
    \/ \E r \in InfoReplies : ScriptInfoReply(r)
    \/ \E r \in TranscriptReplies : ScriptTranscriptReply(r)
    \/ \E r \in OpenAIReplies : ScriptOpenAIReply(r)

SpecScript == InitScript /\ [][NextScript]_vars

\* ------------------------------------------------------------------------
\* The second definition of the server in webServer.js (lines 963-1422):
\* POST /summarize without the Twitter path and without environment keys
\* ------------------------------------------------------------------------
\* the validation of lines 1333-1355: the 400 message, or <<>>
secondRejection(b) ==
    IF b.youtubeKey = "" \/ ~Truthy(b.videoId) THEN MsgMissingFields
    ELSE IF b.aiProvider = "openai" /\ b.openaiKey = "" THEN MsgOpenAIKeyRequired
    ELSE IF b.aiProvider = "gemini" /\ b.geminiKey = "" THEN MsgGeminiKeyRequired
    ELSE IF AiFalsy(b.aiProvider) \/ b.aiProvider \notin {"openai", "gemini"}
    THEN MsgInvalidProvider
    ELSE <<>>

\* model selection of lines 1095-1112: the first preferred model that is
\* listed (gemini-2.5-pro before gemini-2.5-flash)
secondModelToUse(r) ==
    IF r.kind = "reject" THEN Throw(Err(<<"fetch failed">>, 0, ""))
    ELSE IF r.kind = "notok"
    THEN Throw(Err(<<"Invalid Gemini API key: ">>
                     \o (IF r.message # <<>> THEN r.message ELSE <<"Unknown error">>),
                   0, ""))
    ELSE LET availableModels ==
                 IF r.hasModels THEN {StripModelsPrefix(m) : m \in r.models} ELSE {}
         IN  IF <<"gemini-2.5-pro">> \in availableModels
             THEN Return(<<"gemini-2.5-pro">>)
             ELSE IF <<"gemini-2.5-flash">> \in availableModels
             THEN Return(<<"gemini-2.5-flash">>)
             ELSE Throw(Err(<<"No suitable Gemini models found">>, 0, ""))

\* the key the handler passes to summarizeTranscript (line 1381)
secondArgKey(b) == IF b.aiProvider = "openai" THEN b.openaiKey ELSE b.geminiKey

\* lines 1357-1364: the client is stored in the module-level variable, then
\* the metadata lookup starts; new OpenAI throws without any key
secondReceive(e, b) ==
    IF secondRejection(b) # <<>> THEN Fail(400, secondRejection(b))
    ELSE IF openAIClientKey(b.openaiKey, e) = "" THEN Fail(500, MsgUnexpected)
    ELSE Out("awaitVideoDetails", <<Call("youtube.videos", b.youtubeKey, b.videoId)>>,
             <<"metadata">>, <<>>)

\* the value of the module-level openai variable after the handler's first
\* piece of code: the client, named by its key
secondClient(cur, e, b) ==
    IF secondRejection(b) = <<>> /\ openAIClientKey(b.openaiKey, e) # ""
    THEN openAIClientKey(b.openaiKey, e)
    ELSE cur

\* lines 1372-1382: the transcript check, then summarizeTranscript
secondAfterTranscript(e, b, text) ==
    IF text = <<>> THEN Fail(404, MsgNoTranscript)
    ELSE IF b.aiProvider = "openai"
    THEN IF openAIClientKey(secondArgKey(b), e) = ""
         THEN [Fail(500, MsgUnexpected) EXCEPT !.stages = <<"summarization">>]
         ELSE Out("awaitOpenAI",
                  <<Call("openai.chat", openAIClientKey(secondArgKey(b), e), <<>>)>>,
                  <<"summarization">>, <<>>)
    ELSE Out("awaitGeminiModels", <<Call("gemini.models", secondArgKey(b), <<>>)>>,
             <<"summarization">>, <<>>)

\* lines 1383-1410: the summary check, the response, the catch block
secondAfterSummary(b, text, result) ==
    IF result.kind = "throw" THEN Fail(500, MsgUnexpected)
    ELSE IF result.value = <<>>
    THEN Fail(500, <<"Failed to generate summary with ", b.aiProvider,
                     ". Please check your API key and try again.">>)
    ELSE Out("done", <<>>, <<"rendering">>, <<SuccessResponse(result.value, text, "")>>)

SecondReceive(b) ==
    /\ pc = "idle"
    /\ body' = b
    /\ openai' = secondClient(openai, env, b)
    /\ Step(secondReceive(env, b))
    /\ UNCHANGED <<program, files, download, env, lastReply, info, transcript, video>>

SecondVideoDetailsReply(r) ==
    /\ pc = "awaitVideoDetails"
    /\ lastReply' = Reply("youtube.videos", r)
    /\ Step(IF getVideoDetails(r) = "item"
            THEN Out("awaitInnertube", <<Call("innertube.create", "", <<>>)>>,
                     <<"extraction">>, <<>>)
            ELSE Fail(404, MsgVideoNotFound))
    /\ UNCHANGED <<program, files, download, env, openai, body, info, transcript, video>>

SecondInnertubeReply(ok) ==
    /\ pc = "awaitInnertube"
    /\ lastReply' = Reply("innertube.create", ok)
    /\ Step(IF ok
            THEN Out("awaitInfo", <<Call("innertube.getInfo", "", body.videoId)>>, <<>>, <<>>)
            ELSE secondAfterTranscript(env, body, <<>>))
    /\ UNCHANGED <<program, files, download, env, openai, body, info, transcript, video>>

SecondInfoReply(r) ==
    /\ pc = "awaitInfo"
    /\ lastReply' = Reply("innertube.getInfo", r)
    /\ Step(IF r.kind = "ok"
            THEN Out("awaitTranscript", <<Call("innertube.getTranscript", "", body.videoId)>>,
                     <<>>, <<>>)
            ELSE secondAfterTranscript(env, body, <<>>))
    /\ UNCHANGED <<program, files, download, env, openai, body, info, transcript, video>>

\* fetchTranscript of lines 1006-1033 is the one of the scripts: no caption
\* fallback
SecondTranscriptReply(r) ==
    /\ pc = "awaitTranscript"
    /\ lastReply' = Reply("innertube.getTranscript", r)
    /\ transcript' = scriptTranscript(r)
    /\ Step(secondAfterTranscript(env, body, scriptTranscript(r)))
    /\ UNCHANGED <<program, files, download, env, openai, body, info, video>>

SecondOpenAIReply(r) ==
    /\ pc = "awaitOpenAI"
    /\ lastReply' = Reply("openai.chat", r)
    /\ Step(secondAfterSummary(body, transcript, summarizeWithOpenAI(r)))
    /\ UNCHANGED <<program, files, download, env, openai, body, info, transcript, video>>

SecondGeminiModelsReply(r) ==
    /\ pc = "awaitGeminiModels"
    /\ lastReply' = Reply("gemini.models", r)
    /\ Step(IF secondModelToUse(r).kind = "throw"
            THEN secondAfterSummary(body, transcript, secondModelToUse(r))
            ELSE Out("awaitGeminiGenerate",
                     <<Call("gemini.generate", secondArgKey(body), secondModelToUse(r).value)>>,
                     <<>>, <<>>))
    /\ UNCHANGED <<program, files, download, env, openai, body, info, transcript, video>>

\* the generation call of lines 1125-1176 throws and returns in the same
\* cases as the one of the first definition
SecondGeminiGenerateReply(r) ==
    /\ pc = "awaitGeminiGenerate"
    /\ lastReply' = Reply("gemini.generate", r)
    /\ Step(secondAfterSummary(body, transcript, summarizeWithGemini(r)))
    /\ UNCHANGED <<program, files, download, env, openai, body, info, transcript, video>>

NextSecond ==
    \/ \E b \in Bodies : SecondReceive(b)
    \/ \E r \in VideoListReplies : SecondVideoDetailsReply(r)
    \/ \E ok \in BOOLEAN : SecondInnertubeReply(ok)
    \/ \E r \in InfoReplies : SecondInfoReply(r)
    \/ \E r \in TranscriptReplies : SecondTranscriptReply(r)
    \/ \E r \in OpenAIReplies : SecondOpenAIReply(r)
    \/ \E r \in GeminiModelsReplies : SecondGeminiModelsReply(r)
    \/ \E r \in GeminiGenerateReplies : SecondGeminiGenerateReply(r)

SpecSecond == Init /\ [][NextSecond]_vars

\* ------------------------------------------------------------------------
\* The download routes (lines 721-745)
\* ------------------------------------------------------------------------
\* the :videoId parameter of a download request
DownloadIds == {IdXyz, IdAbc}

\* the file a route looks for: transcript_<id>.txt or summary_<id>.html
downloadFile(kind, id) ==
    File(kind, id, IF kind = "transcript" THEN "txt" ELSE "html")

\* fs.existsSync(filename): the file is sent, else 404
downloadStatus(fs, kind, id) ==
    IF downloadFile(kind, id) \in fs THEN 200 ELSE 404

\* a deployment with the three keys in the environment; the working
\* directory is empty, or holds the two files that an earlier run of the
\* script part_000 wrote for the video xyz
InitDownload ==
    /\ env = [yt |-> "env-youtube-key", oa |-> "env-openai-key", gm |-> "env-gemini-key"]
    /\ openai = "null"
    /\ pc = "idle"
    /\ body = NoBody
    /\ calls = <<>>
    /\ stages = <<>>
    /\ lastReply = NoReply
    /\ responses = <<>>
    /\ info = <<>>
    /\ transcript = <<>>
    /\ video = NoVideo
    /\ program = "webServer.js"
    /\ files \in {{}, {File("transcript", IdXyz, "txt"), File("summary", IdXyz, "html")}}
    /\ download = NoDownload

\* GET /download/<kind>/<id>, once the POST /summarize request has ended
Download(kind, id) ==
    /\ pc = "done"
    /\ download = NoDownload
    /\ download' = [status |-> downloadStatus(files, kind, id),
                    file |-> downloadFile(kind, id)]
    /\ UNCHANGED <<env, openai, pc, body, calls, stages, lastReply, responses,
                   info, transcript, video, program, files>>

NextDownload ==
    \/ Next
    \/ \E kind \in {"transcript", "summary"}, id \in DownloadIds : Download(kind, id)

SpecDownload == InitDownload /\ [][NextDownload]_vars

\* ------------------------------------------------------------------------
\* Observations on a request
\* ------------------------------------------------------------------------
Range(seq) == {seq[i] : i \in 1..Len(seq)}

CallsTo(api) == {c \in Range(calls) : c.api = api}

\* the request went down the Twitter branch of the handler
TookTwitterPath ==
    /\ pc # "idle"
    /\ \/ CallsTo("fxtwitter.status") # {}
       \/ responses = <<ErrorResponse(400, MsgTwitterNeedsGemini)>>
       \/ responses = <<ErrorResponse(500, MsgNoTweetId)>>

\* the summarization backends the request has called
BackendsInvoked ==
    (IF CallsTo("openai.chat") # {} THEN {"openai"} ELSE {})
    \cup (IF CallsTo("gemini.models") \cup CallsTo("gemini.generate") # {}
          THEN {"gemini"} ELSE {})

\* the request has ended with exactly this response
EndedWith(r) == pc = "done" /\ responses = <<r>>

\* the host of a URL: what follows "://" up to the next "/"
RECURSIVE UpToSlash(_)
UpToSlash(s) ==
    IF s = <<>> \/ Head(s) = "/" THEN <<>> ELSE <<Head(s)>> \o UpToSlash(Tail(s))

HostOf(u) ==
    IF Len(u) >= Len(Https) /\ SubSeq(u, 1, Len(Https)) = Https
    THEN UpToSlash(SubSeq(u, Len(Https) + 1, Len(u)))
    ELSE <<>>

EndsWith(s, suffix) ==
    Len(s) >= Len(suffix) /\ SubSeq(s, Len(s) - Len(suffix) + 1, Len(s)) = suffix

\* the URL is on the domain twitter.com or x.com (or a subdomain of them)
OnTwitterDomain(u) ==
    LET h == HostOf(ToText(u))
    IN  \/ h \in {TwitterCom, XCom}
        \/ EndsWith(h, <<".">> \o TwitterCom)
        \/ EndsWith(h, <<".">> \o XCom)

\* the status id of a URL: the digits of the path segment after /status/
SlashStatusSlash == <<"/">> \o StatusSlash

StatusIdOf(u) ==
    LET s == ToText(u)
        at == {k \in 1..Len(s) :
                 /\ k + Len(SlashStatusSlash) - 1 <= Len(s)
                 /\ SubSeq(s, k, k + Len(SlashStatusSlash) - 1) = SlashStatusSlash}
    IN  IF at = {} THEN <<>>
        ELSE DigitRun(s, (CHOOSE k \in at : \A m \in at : k <= m) + Len(SlashStatusSlash))

\* ------------------------------------------------------------------------
\* C1: a YouTube request that omits aiProvider and passes validation is
\* summarized by the Gemini backend when a Gemini key is available (from the
\* environment or the body), and by the OpenAI backend otherwise.
\* ------------------------------------------------------------------------
C1_DefaultProviderInvoked ==
    (pc # "idle" /\ ~TookTwitterPath /\ body.aiProvider = AiUndefined)
        => BackendsInvoked \subseteq
             {IF KeyOr(env.gm, body.geminiKey) # "" THEN "gemini" ELSE "openai"}

\* ------------------------------------------------------------------------
\* C2: the pipeline stages of a request start in the order metadata lookup,
\* content extraction, summarization, report rendering, each at most once,
\* and content extraction starts only in the step in which the metadata
\* lookup of that request returned an existing resource.
\* ------------------------------------------------------------------------
StageRank(st) ==
    CASE st = "metadata" -> 1
      [] st = "extraction" -> 2
      [] st = "summarization" -> 3
      [] st = "rendering" -> 4
      [] OTHER -> 0

StagesInOrder ==
    \A i, j \in 1..Len(stages) : i < j => StageRank(stages[i]) < StageRank(stages[j])

MetadataFound(lr) ==
    \/ /\ lr.api = "youtube.videos"
       /\ lr.reply.kind = "ok" /\ lr.reply.hasItems /\ lr.reply.items > 0
    \/ /\ lr.api = "fxtwitter.status"
       /\ lr.reply.kind = "tweet"

C2_StagesLinear ==
    /\ []StagesInOrder
    /\ [][("extraction" \notin Range(stages) /\ "extraction" \in Range(stages'))
            => MetadataFound(lastReply')]_vars

C2_Witness ==
    /\ pc = "done"
    /\ stages = <<"metadata", "extraction", "summarization", "rendering">>
    /\ responses[1].success

\* ------------------------------------------------------------------------
\* C3: a request classified as Twitter/X without a Gemini key (environment
\* or body) is rejected with HTTP 400 before any upstream call, whatever
\* aiProvider and OpenAI key the caller supplied.
\* ------------------------------------------------------------------------
C3_TwitterNeedsGeminiKey ==
    (TookTwitterPath /\ env.gm = "" /\ body.geminiKey = "")
        => /\ calls = <<>>
           /\ EndedWith(ErrorResponse(400, MsgTwitterNeedsGemini))

C3_Witness ==
    /\ TookTwitterPath /\ env.gm = "" /\ body.geminiKey = ""
    /\ body.aiProvider = "openai" /\ body.openaiKey # ""
    /\ responses[1].status = 400

\* ------------------------------------------------------------------------
\* C4: when the Twitter video download exceeds the 15 MiB cap the request
\* ends with the "Video is too large" error and the Gemini generation
\* endpoint is never called for it.
\* ------------------------------------------------------------------------
DownloadTooLarge ==
    /\ lastReply.api = "video.download"
    /\ lastReply.reply.kind = "body"
    /\ lastReply.reply.size > MaxContentLengthMiB

C4_TooLargeNeverSummarized ==
    DownloadTooLarge
        => /\ pc = "done"
           /\ Len(responses) = 1
           /\ ~responses[1].success
           /\ Includes(responses[1].error, MsgTooLarge[1])
           /\ CallsTo("gemini.generate") = {}

C4_Witness == DownloadTooLarge /\ pc = "done" /\ responses[1].status = 500

\* ------------------------------------------------------------------------
\* C5: on every path that uses the multimodal backend, a generation response
\* whose candidate has finishReason MAX_TOKENS makes the request fail; its
\* partial text is never returned in a success response.
\* ------------------------------------------------------------------------
GenerationTruncated ==
    /\ lastReply.api = "gemini.generate"
    /\ lastReply.reply.kind = "ok"
    /\ lastReply.reply.hasCandidate
    /\ lastReply.reply.finishReason = "MAX_TOKENS"

C5_TruncationIsFailure ==
    GenerationTruncated
        => pc = "done" /\ Len(responses) = 1 /\ ~responses[1].success

\* ------------------------------------------------------------------------
\* C6: an input that is a Twitter/X status URL is classified as Twitter and
\* the status id looked up is its numeric id; an input whose domain is not
\* twitter.com or x.com, or that lacks status/<digits>, is never classified
\* as Twitter.
\* ------------------------------------------------------------------------
IsTwitterStatusUrl(u) == OnTwitterDomain(u) /\ StatusIdOf(u) # <<>>

C6_ResolverClassification ==
    pc # "idle" =>
        LET u == OrElse(body.videoUrl, body.videoId)
        IN  /\ IsTwitterStatusUrl(u)
                => /\ TookTwitterPath
                   /\ \A c \in CallsTo("fxtwitter.status") : c.arg = StatusIdOf(u)
            /\ (~OnTwitterDomain(u) \/ ~HasStatusDigits(ToText(u)))
                => ~TookTwitterPath

\* ------------------------------------------------------------------------
\* C7: an input on the domain twitter.com or x.com without a status/<digits>
\* segment makes the request fail with the "could not extract tweet ID"
\* error; it is not processed as any other kind of video reference.
\* ------------------------------------------------------------------------
C7_TwitterDomainWithoutId ==
    LET u == OrElse(body.videoUrl, body.videoId)
    IN  (pc # "idle" /\ OnTwitterDomain(u) /\ ~HasStatusDigits(ToText(u)))
            => /\ calls = <<>>
               /\ pc = "done"
               /\ Len(responses) = 1
               /\ Includes(responses[1].error, MsgNoTweetId[1])

\* ------------------------------------------------------------------------
\* C8: a non-empty identifier (videoUrl, else videoId) that is not
\* classified as Twitter is processed as a literal YouTube video id: it is
\* the id of the metadata lookup, unchanged, and the request is not rejected
\* for lacking a video id.
\* ------------------------------------------------------------------------
C8_IdentifierPassedUnchanged ==
    LET u == OrElse(body.videoUrl, body.videoId)
    IN  (pc # "idle" /\ Truthy(u) /\ ~TookTwitterPath)
            => /\ \A c \in CallsTo("youtube.videos") : c.arg = u
               /\ KeyOr(env.yt, body.youtubeKey) # ""
                    => responses # <<ErrorResponse(400, MsgMissingFields)>>

\* ------------------------------------------------------------------------
\* C9: when the YouTube Data API lookup returns zero items, the request ends
\* with the "Video not found" response (HTTP 404), no exception escaping,
\* and transcript extraction is not attempted.
\* ------------------------------------------------------------------------
LookupZeroItems ==
    /\ lastReply.api = "youtube.videos"
    /\ lastReply.reply.kind = "ok"
    /\ lastReply.reply.hasItems
    /\ lastReply.reply.items = 0

C9_ZeroItemsNotFound ==
    LookupZeroItems
        => /\ EndedWith(ErrorResponse(404, MsgVideoNotFound))
           /\ stages = <<"metadata">>
           /\ Len(calls) = 1

C9_Witness == LookupZeroItems /\ pc = "done" /\ responses[1].status = 404

\* ------------------------------------------------------------------------
\* C10 (as stated): when the YouTube Data API lookup fails with a network or
\* auth error, the request ends with an outcome that carries the upstream
\* status and differs from the outcome of a lookup with zero results.
\* ------------------------------------------------------------------------
LookupFailed ==
    /\ lastReply.api = "youtube.videos"
    /\ lastReply.reply.kind = "error"

C10_FetchErrorDistinguished ==
    LookupFailed
        => /\ pc = "done"
           /\ Len(responses) = 1
           /\ responses[1] # ErrorResponse(404, MsgVideoNotFound)
           /\ lastReply.reply.status # 0
                => Includes(responses[1].error, ToString(lastReply.reply.status))

\* ------------------------------------------------------------------------
\* C10 (amended): when the YouTube Data API lookup fails with a network or
\* auth error, the request ends with the same "Video not found or
\* inaccessible" response (HTTP 404) as a lookup with zero results; the
\* upstream status is not part of the response, and no further upstream
\* call is made.
\* ------------------------------------------------------------------------
C10_FetchErrorReportedAsNotFound ==
    LookupFailed
        => /\ EndedWith(ErrorResponse(404, MsgVideoNotFound))
           /\ stages = <<"metadata">>
           /\ Len(calls) = 1

C10_Witness ==
    /\ LookupFailed /\ pc = "done"
    /\ lastReply.reply.status = 403
    /\ responses[1].status = 404

\* ------------------------------------------------------------------------
\* C11 (as stated): on the Twitter path, a mirror API response without a
\* tweet field and a mirror API HTTP 404 end the request with the same
\* "Tweet not found" response; a mirror API timeout ends it with the
\* "Request timed out" response.
\* ------------------------------------------------------------------------
MirrorNoTweet ==
    /\ lastReply.api = "fxtwitter.status"
    /\ lastReply.reply.kind = "notweet"

MirrorNotFound ==
    /\ lastReply.api = "fxtwitter.status"
    /\ lastReply.reply.kind = "error"
    /\ lastReply.reply.status = 404

MirrorTimedOut ==
    /\ lastReply.api = "fxtwitter.status"
    /\ lastReply.reply.kind = "error"
    /\ lastReply.reply.code = "ECONNABORTED"

C11_MissingTweetIsTweetNotFound ==
    /\ (MirrorNoTweet \/ MirrorNotFound)
            => EndedWith(ErrorResponse(500, MsgTweetNotFound))
    /\ MirrorTimedOut => EndedWith(ErrorResponse(500, MsgTimedOut))

\* ------------------------------------------------------------------------
\* C11 (amended): on the Twitter path, a mirror API HTTP 404 ends the
\* request with the "Tweet not found" response and a mirror API timeout
\* with the "Request timed out" response; a mirror API response without a
\* tweet field ends it with another response, "Failed to process Twitter
\* video: Could not fetch tweet data".  All three are HTTP 500 and the
\* mirror lookup is the only upstream call of the request.
\* ------------------------------------------------------------------------
C11_MirrorFailureOutcomes ==
    /\ MirrorNotFound => EndedWith(ErrorResponse(500, MsgTweetNotFound))
    /\ MirrorTimedOut => EndedWith(ErrorResponse(500, MsgTimedOut))
    /\ MirrorNoTweet
            => EndedWith(ErrorResponse(500, <<"Failed to process Twitter video: ">>
                                                \o MsgNoTweetData))
    /\ (MirrorNotFound \/ MirrorTimedOut \/ MirrorNoTweet) => Len(calls) = 1

C11_Witness ==
    /\ MirrorNoTweet /\ pc = "done"
    /\ responses[1].status = 500
    /\ responses[1].error # MsgTweetNotFound

\* ------------------------------------------------------------------------
\* C12: on every path that uses the multimodal backend (transcript text or
\* video bytes) the generation endpoint is called only after a model listing
\* call with the same key, which succeeded and contained the required model,
\* and only for that model; a failed listing ends the request with the
\* invalid-key error and a listing without the model with the
\* model-unavailable error.
\* ------------------------------------------------------------------------
ListingFailed ==
    /\ lastReply.api = "gemini.models"
    /\ lastReply.reply.kind = "notok"

ListingLacksModel ==
    /\ lastReply.api = "gemini.models"
    /\ lastReply.reply.kind = "ok"
    /\ ModelFlash \notin lastReply.reply.models

C12_GenerationAfterModelListing ==
    /\ \A i \in 1..Len(calls) :
          calls[i].api = "gemini.generate"
              => /\ calls[i].arg = <<"gemini-2.5-flash">>
                 /\ \E j \in 1..(i - 1) :
                       /\ calls[j].api = "gemini.models"
                       /\ calls[j].key = calls[i].key
    /\ ListingFailed
          => /\ pc = "done" /\ Len(responses) = 1 /\ ~responses[1].success
             /\ Includes(responses[1].error, "Invalid Gemini API key: ")
             /\ CallsTo("gemini.generate") = {}
    /\ ListingLacksModel
          => /\ EndedWith(ErrorResponse(500, MsgModelUnavailable))
             /\ CallsTo("gemini.generate") = {}

\* ------------------------------------------------------------------------
\* C13: when the text backend is invoked and the chat completion call
\* answers with an error status, or its response has no completion content,
\* the request ends with one error response (HTTP 500); no success response
\* is sent and no report is rendered.
\* ------------------------------------------------------------------------
ChatFailed ==
    /\ lastReply.api = "openai.chat"
    /\ \/ lastReply.reply.kind \in {"error", "nochoices"}
       \/ lastReply.reply.content = <<>>

C13_TextBackendFailureIsError ==
    ChatFailed
        => /\ pc = "done"
           /\ Len(responses) = 1
           /\ ~responses[1].success
           /\ responses[1].status = 500
           /\ responses[1].error # <<>>
           /\ "rendering" \notin Range(stages)

C13_Witness ==
    /\ ChatFailed /\ pc = "done"
    /\ lastReply.reply.kind = "error"
    /\ responses[1].status = 500

\* ------------------------------------------------------------------------
\* C14: for every failing request, on the YouTube and the Twitter path
\* alike, an upstream failure that signals overload ("overloaded" or 503)
\* ends it with the overload text, one that signals rate limiting ("quota"
\* or 429) with the rate-limit text, and a failure that matches no known
\* pattern with a message that is none of the translated texts.
\* ------------------------------------------------------------------------
GenerationRefused(status) ==
    /\ lastReply.api = "gemini.generate"
    /\ lastReply.reply.kind = "notok"
    /\ lastReply.reply.status = status

ChatRefused(status) ==
    /\ lastReply.api = "openai.chat"
    /\ lastReply.reply.kind = "error"
    /\ Includes(lastReply.reply.message, status)

C14_FriendlyErrorTexts ==
    /\ GenerationRefused("503") => EndedWith(ErrorResponse(500, MsgOverloaded))
    /\ (GenerationRefused("429") \/ ChatRefused("429"))
            => EndedWith(ErrorResponse(500, MsgRateLimit))
    /\ (GenerationRefused("400") \/ ChatRefused("500"))
            => /\ pc = "done" /\ Len(responses) = 1 /\ ~responses[1].success
               /\ responses[1].error \notin {MsgOverloaded, MsgRateLimit, MsgInvalidKey, <<>>}

\* ------------------------------------------------------------------------
\* C15 (as stated): within one request no upstream endpoint is called more
\* than once, and a step in which an upstream call has failed issues no
\* further upstream call and ends the request (so that no call follows a
\* failure).
\* ------------------------------------------------------------------------
\* the upstream call answered by reply lr failed
ReplyFailed(lr) ==
    CASE lr.api = "youtube.videos" -> lr.reply.kind = "error"
      [] lr.api = "innertube.create" -> ~lr.reply
      [] lr.api = "innertube.getInfo" -> lr.reply.kind = "throw"
      [] lr.api = "innertube.getTranscript" -> lr.reply.kind = "throw"
      [] lr.api = "captions.get" -> lr.reply.kind = "error"
      [] lr.api = "openai.chat" -> lr.reply.kind = "error"
      [] lr.api = "gemini.models" -> lr.reply.kind \in {"reject", "notok"}
      [] lr.api = "gemini.generate" -> lr.reply.kind \in {"reject", "notok"}
      [] lr.api = "fxtwitter.status" -> lr.reply.kind = "error"
      [] lr.api = "video.download" -> lr.reply.kind = "error"
      [] OTHER -> FALSE

EachEndpointOnce ==
    \A i, j \in 1..Len(calls) : i # j => calls[i].api # calls[j].api

C15_NoCallAfterFailure ==
    /\ []EachEndpointOnce
    /\ [][ReplyFailed(lastReply') => (calls' = calls /\ pc' = "done")]_vars

\* ------------------------------------------------------------------------
\* C15 (amended): within one request no upstream endpoint is called more
\* than once, and a step in which an upstream call has failed issues no
\* further upstream call and ends the request, with one exception: when the
\* structured transcript call (info.getTranscript) has failed and the video
\* has a caption track with a URL, that caption document is requested and
\* the request goes on.
\* ------------------------------------------------------------------------
C15_NoCallAfterFailureButCaptions ==
    /\ []EachEndpointOnce
    /\ [][ReplyFailed(lastReply')
            => \/ calls' = calls /\ pc' = "done"
               \/ /\ lastReply'.api = "innertube.getTranscript"
                  /\ Len(info) > 0 /\ captionTrack(info).base_url # ""
                  /\ calls' = calls \o <<Call("captions.get", "",
                                              <<captionTrack(info).base_url>>)>>
                  /\ pc' = "awaitCaption"]_vars

C15_Witness ==
    /\ pc = "done"
    /\ CallsTo("captions.get") # {}
    /\ ReplyFailed(lastReply)
    /\ lastReply.api = "gemini.models"
    /\ CallsTo("gemini.generate") = {}

\* ------------------------------------------------------------------------
\* C16 (as stated): if a run of a script has fetched a transcript and the
\* summarization that follows fails, the run has written no artifact file:
\* in particular no transcript file for that id.
\* ------------------------------------------------------------------------
SummarizationFailedInRun ==
    /\ program \in Scripts
    /\ transcript # <<>>
    /\ lastReply.api = "openai.chat"
    /\ \/ lastReply.reply.kind \in {"error", "nochoices"}
       \/ lastReply.reply.content = <<>>

C16_NoPartialArtifacts ==
    SummarizationFailedInRun => files = {}

\* ------------------------------------------------------------------------
\* C16 (amended): if a run of a script has fetched a transcript and the
\* summarization that follows fails, the run ends having written the
\* transcript file transcript_<id>.txt of that id and nothing else: no
\* summary file.
\* ------------------------------------------------------------------------
C16_TranscriptKeptWithoutSummary ==
    SummarizationFailedInRun
        => /\ pc = "done"
           /\ files = {File("transcript", body.videoId, "txt")}

C16_Witness ==
    /\ SummarizationFailedInRun /\ pc = "done"
    /\ lastReply.reply.kind = "error"
    /\ File("transcript", IdXyz, "txt") \in files

\* ------------------------------------------------------------------------
\* C17: after a POST /summarize request for the video X has succeeded,
\* GET /download/transcript/X and GET /download/summary/X answer with the
\* files of that request, not with 404.
\* ------------------------------------------------------------------------
C17_DownloadAfterSuccess ==
    (/\ pc = "done"
     /\ Len(responses) = 1 /\ responses[1].success
     /\ ~TookTwitterPath
     /\ download # NoDownload
     /\ download.file.id = body.videoId)
        => download.status = 200

\* ------------------------------------------------------------------------
\* C18: no state outlives a request: no step of a request writes the
\* module-level variable of the server (the openai client), so the outcome
\* of a request rests on nothing an earlier or concurrent request left
\* behind.
\* ------------------------------------------------------------------------
C18_NoModuleStateWritten == [][openai' = openai]_vars

\* ------------------------------------------------------------------------
\* C19: for each of the three keys (YouTube, OpenAI, Gemini), the key of
\* every upstream call to that service is the environment key when one is
\* set, and the key of the request body only when the environment has none.
\* ------------------------------------------------------------------------
C19_EnvKeyTakesPrecedence ==
    \A c \in Range(calls) :
        /\ c.api = "youtube.videos" => c.key = KeyOr(env.yt, body.youtubeKey)
        /\ c.api = "openai.chat" => c.key = KeyOr(env.oa, body.openaiKey)
        /\ c.api \in {"gemini.models", "gemini.generate"}
              => c.key = KeyOr(env.gm, body.geminiKey)

\* ------------------------------------------------------------------------
\* C20 (as stated): the decoder of the caption XML fallback maps the
\* document &amp;amp; to the text & and the document
\* &amp;quot;test&amp;quot; to the text "test".
\* ------------------------------------------------------------------------
CaptionDecoded(doc) ==
    /\ lastReply.api = "captions.get"
    /\ lastReply.reply.kind = "ok"
    /\ lastReply.reply.doc = doc

C20_DoubleEscapedFullyDecoded ==
    /\ CaptionDecoded(XmlAmpAmp) => transcript = <<"&">>
    /\ CaptionDecoded(XmlAmpQuot) => transcript = <<"\"","t","e","s","t","\"">>

\* ------------------------------------------------------------------------
\* C20 (amended): the decoder of the caption XML fallback strips the tags,
\* then unescapes &#39;, &quot;, &amp;, &lt;, &gt; in this order, each in one
\* pass over the text, then collapses whitespace and trims: the document
\* &amp;amp; becomes &amp;, the document &amp;quot;test&amp;quot; becomes
\* &quot;test&quot;, the document &lt;b&gt;x becomes <b>x and the document
\* <t>Hi &amp; bye</t> becomes Hi & bye.
\* ------------------------------------------------------------------------
C20_DecodedOneLevelInOrder ==
    /\ CaptionDecoded(XmlAmpAmp) => transcript = <<"&","a","m","p",";">>
    /\ CaptionDecoded(XmlAmpQuot)
          => transcript = <<"&","q","u","o","t",";","t","e","s","t",
                            "&","q","u","o","t",";">>
    /\ CaptionDecoded(XmlLtB) => transcript = <<"<","b",">","x">>
    /\ CaptionDecoded(XmlHi) => transcript = <<"H","i"," ","&"," ","b","y","e">>

C20_Witness ==
    /\ CaptionDecoded(XmlAmpQuot)
    /\ transcript # <<>>
    /\ pc \in {"awaitOpenAI", "awaitGeminiModels"}

\* ------------------------------------------------------------------------
\* C21: the video URL of a tweet is the first that exists of
\* media.videos[0].url, the last entry of media.videos[0].variants, and the
\* url of the first media.all item of type video; the "No video found"
\* error is sent only when none of the three exists, and then neither the
\* video download nor the generation call is made.
\* ------------------------------------------------------------------------
\* the fall-through chain of the three candidates
ChainVideoUrl(media) ==
    LET first == IF Len(media.videos) > 0 THEN media.videos[1].url ELSE <<>>
        second == IF Len(media.videos) > 0 /\ media.videos[1].variants # <<>>
                  THEN media.videos[1].variants[Len(media.videos[1].variants)]
                  ELSE <<>>
    IN  IF first # <<>> THEN first
        ELSE IF second # <<>> THEN second
        ELSE FirstVideoItemUrl(media.all)

TweetReceived ==
    /\ lastReply.api = "fxtwitter.status"
    /\ lastReply.reply.kind = "tweet"

C21_VideoUrlFallThrough ==
    TweetReceived
        => IF ChainVideoUrl(lastReply.reply.media) = <<>>
           THEN /\ EndedWith(ErrorResponse(500, MsgNoVideoFound))
                /\ Len(calls) = 1
           ELSE /\ pc = "awaitVideo"
                /\ calls[Len(calls)] =
                     Call("video.download", "", ChainVideoUrl(lastReply.reply.media))

\* ------------------------------------------------------------------------
\* C22: when the structured transcript call throws and the video has
\* caption tracks, the caption document requested is that of the track
\* whose language code is "en" if there is one, else of the first track;
\* and the decoded text of that document, when not empty, is the transcript
\* the request goes on with.
\* ------------------------------------------------------------------------
\* the "en" track of lowest index, else the first track
EnTrackOrFirst(tracks) ==
    LET en == {i \in 1..Len(tracks) : tracks[i].language_code = "en"}
    IN  IF en # {} THEN tracks[CHOOSE i \in en : \A j \in en : i <= j]
        ELSE tracks[1]

TranscriptCallThrew(lr) ==
    /\ lr.api = "innertube.getTranscript"
    /\ lr.reply.kind = "throw"

C22_EnglishTrackPreferred ==
    /\ [][(TranscriptCallThrew(lastReply') /\ Len(info) > 0
             /\ EnTrackOrFirst(info).base_url # "")
            => /\ pc' = "awaitCaption"
               /\ calls' = calls \o <<Call("captions.get", "",
                                           <<EnTrackOrFirst(info).base_url>>)>>]_vars
    /\ [](\A d \in CaptionDocs :
            (CaptionDecoded(d) /\ decodeCaptionXml(d) # <<>>)
                => /\ transcript = decodeCaptionXml(d)
                   /\ "summarization" \in Range(stages)
                   /\ pc = "done" => responses # <<ErrorResponse(404, MsgNoTranscript)>>)

C22_Witness ==
    /\ pc = "awaitCaption"
    /\ info = <<TrackFr, TrackEn>>
    /\ calls[Len(calls)].arg = <<TrackEn.base_url>>

\* ------------------------------------------------------------------------
\* C23: when the structured transcript call throws and the caption fallback
\* fails too (no track, no URL on the chosen track, a failed caption
\* download, or a caption document that decodes to the empty text), the
\* request ends with the "No transcript could be fetched" response (HTTP
\* 404): no exception changes that response and no summarization backend is
\* called.
\* ------------------------------------------------------------------------
CaptionFallbackFailed ==
    /\ lastReply.api = "captions.get"
    /\ \/ lastReply.reply.kind = "error"
       \/ decodeCaptionXml(lastReply.reply.doc) = <<>>

EndedWithoutTranscript ==
    /\ pc = "done"
    /\ responses = <<ErrorResponse(404, MsgNoTranscript)>>
    /\ "summarization" \notin Range(stages)
    /\ BackendsInvoked = {}

C23_BothMethodsFailIsNoTranscript ==
    /\ [](CaptionFallbackFailed => EndedWithoutTranscript)
    /\ [][(TranscriptCallThrew(lastReply')
             /\ (Len(info) = 0 \/ EnTrackOrFirst(info).base_url = ""))
            => EndedWithoutTranscript']_vars

C23_Witness ==
    /\ CaptionFallbackFailed /\ pc = "done"
    /\ lastReply.reply.kind = "ok"
    /\ lastReply.reply.doc = XmlBlank
    /\ responses[1].status = 404

\* ------------------------------------------------------------------------
\* C24: a /summarize request sends exactly one HTTP response on every
\* path: none while the handler still awaits an upstream call, exactly one
\* when the handler has ended, never two.
\* ------------------------------------------------------------------------
C24_ExactlyOneResponse ==
    /\ Len(responses) <= 1
    /\ pc = "done" <=> Len(responses) = 1
    /\ pc \in {"idle", "done", "awaitVideoDetails", "awaitInnertube", "awaitInfo",
               "awaitTranscript", "awaitCaption", "awaitOpenAI", "awaitGeminiModels",
               "awaitGeminiGenerate", "awaitTweet", "awaitVideo", "awaitVideoGenerate"}

C24_Witness ==
    /\ pc = "done" /\ Len(responses) = 1
    /\ body.aiProvider = AiUndefined
    /\ lastReply.api = "openai.chat"
    /\ lastReply.reply.kind = "ok" /\ lastReply.reply.content = <<>>
    /\ responses[1].status = 500

\* ------------------------------------------------------------------------
\* C25: whenever a summarization backend is called, the key of the call is
\* that backend's own resolved key: the OpenAI backend is called with the
\* resolved OpenAI key only and the Gemini backend with the resolved Gemini
\* key only, also when the request omits aiProvider.
\* ------------------------------------------------------------------------
ResolvedKeyOf(backend) ==
    IF backend = "openai" THEN KeyOr(env.oa, body.openaiKey)
    ELSE KeyOr(env.gm, body.geminiKey)

C25_BackendGetsOwnKey ==
    /\ \A c \in CallsTo("openai.chat") : c.key = ResolvedKeyOf("openai")
    /\ \A c \in CallsTo("gemini.models") \cup CallsTo("gemini.generate") :
          c.key = ResolvedKeyOf("gemini")

\* ------------------------------------------------------------------------
\* C26: a /summarize request answered with HTTP 400 has made no upstream
\* call and started no pipeline stage before the response.
\* ------------------------------------------------------------------------
AnsweredBadRequest == Len(responses) > 0 /\ responses[1].status = 400

C26_BadRequestBeforeAnyCall ==
    AnsweredBadRequest
        => /\ calls = <<>>
           /\ stages = <<>>
           /\ lastReply = NoReply
           /\ responses[1].error \in
                {MsgMissingFields, MsgOpenAIKeyRequired, MsgGeminiKeyRequired,
                 MsgInvalidProvider, MsgTwitterNeedsGemini}

C26_Witness ==
    /\ AnsweredBadRequest
    /\ responses[1].error = MsgInvalidProvider
    /\ body.aiProvider = "claude"
    /\ calls = <<>>

\* ------------------------------------------------------------------------
\* C27: on the Twitter path the "Tweet not found" response is sent only
\* when the mirror API lookup itself answered HTTP 404, and the "Request
\* timed out" response only when the mirror API lookup timed out; a 404 or
\* a timeout of the later video download is not reported with these texts.
\* ------------------------------------------------------------------------
C27_MirrorMessagesOnlyForMirror ==
    /\ (pc = "done" /\ responses = <<ErrorResponse(500, MsgTweetNotFound)>>)
            => MirrorNotFound
    /\ (pc = "done" /\ responses = <<ErrorResponse(500, MsgTimedOut)>>)
            => MirrorTimedOut

\* ------------------------------------------------------------------------
\* C28: a caption document is requested in exactly the steps in which the
\* structured transcript call has thrown (and the video has a usable
\* caption track); when that call succeeds without a transcript object or
\* with zero segments, or when loading the video info fails, the request
\* ends with "no transcript" and no caption document was requested.
\* ------------------------------------------------------------------------
TranscriptCallEmpty ==
    /\ lastReply.api = "innertube.getTranscript"
    /\ \/ lastReply.reply.kind = "nodata"
       \/ lastReply.reply.kind = "ok" /\ Len(lastReply.reply.segments) = 0

InfoLoadFailed ==
    /\ lastReply.api = "innertube.getInfo"
    /\ lastReply.reply.kind = "throw"

C28_FallbackOnlyOnThrow ==
    /\ [][(Len(calls') > Len(calls) /\ calls'[Len(calls')].api = "captions.get")
            <=> (/\ TranscriptCallThrew(lastReply')
                 /\ Len(info) > 0
                 /\ EnTrackOrFirst(info).base_url # "")]_vars
    /\ []((TranscriptCallEmpty \/ InfoLoadFailed)
            => /\ EndedWith(ErrorResponse(404, MsgNoTranscript))
               /\ CallsTo("captions.get") = {})

C28_Witness ==
    /\ TranscriptCallEmpty /\ pc = "done"
    /\ lastReply.reply.kind = "nodata"
    /\ responses[1].status = 404

\* ------------------------------------------------------------------------
\* C29: the decoder of the caption XML fallback is a single-level unescape:
\* every entity of the input is unescaped exactly once and the text that a
\* replacement produced is never unescaped again (a &amp;lt; b decodes to
\* a &lt; b, not to a < b).
\* ------------------------------------------------------------------------
\* the five entities and the character each stands for
Entities ==
    {[name |-> <<"&","#","3","9",";">>, char |-> "'"],
     [name |-> <<"&","q","u","o","t",";">>, char |-> "\""],
     [name |-> <<"&","a","m","p",";">>, char |-> "&"],
     [name |-> <<"&","l","t",";">>, char |-> "<"],
     [name |-> <<"&","g","t",";">>, char |-> ">"]}

StartsWith(s, p) == Len(s) >= Len(p) /\ SubSeq(s, 1, Len(p)) = p

\* one pass over the text that unescapes each entity where it stands
RECURSIVE UnescapeOnce(_)
UnescapeOnce(s) ==
    IF s = <<>> THEN <<>>
    ELSE IF \E e \in Entities : StartsWith(s, e.name)
    THEN LET e == CHOOSE x \in Entities : StartsWith(s, x.name)
         IN  <<e.char>> \o UnescapeOnce(SubSeq(s, Len(e.name) + 1, Len(s)))
    ELSE <<Head(s)>> \o UnescapeOnce(Tail(s))

C29_SingleLevelUnescape ==
    \A d \in CaptionDocs :
        CaptionDecoded(d)
            => transcript = Trim(CollapseSpaces(UnescapeOnce(StripTags(d))))

\* ------------------------------------------------------------------------
\* C30: the HTTP status of the response follows the class of the outcome:
\* 400 when the request was rejected by validation, 404 when the video was
\* not found or no transcript could be fetched, 500 for every other
\* failure; and a success body (status 200, with summary, transcript and
\* rendered report) is sent only when metadata lookup, content extraction
\* and summarization all returned a non-empty result.
\* ------------------------------------------------------------------------
ExtractionApis ==
    {"innertube.create", "innertube.getInfo", "innertube.getTranscript", "captions.get"}

\* the classes of a request that has ended
RejectedByValidation == pc = "done" /\ calls = <<>>

VideoNotFound == pc = "done" /\ lastReply.api = "youtube.videos"

NoTranscriptFetched ==
    pc = "done" /\ lastReply.api \in ExtractionApis /\ transcript = <<>>

\* the text of the summarizer's last reply, <<>> when it has none
ReplyText(lr) ==
    IF lr.api = "openai.chat" /\ lr.reply.kind = "ok" THEN lr.reply.content
    ELSE IF lr.api = "gemini.generate" /\ lr.reply.kind = "ok"
            /\ lr.reply.hasCandidate /\ lr.reply.hasParts
    THEN lr.reply.text
    ELSE <<>>

AllStagesReturnedContent ==
    /\ stages = <<"metadata", "extraction", "summarization", "rendering">>
    /\ ReplyText(lastReply) # <<>>
    /\ IF TookTwitterPath
       THEN video.url # <<>> /\ CallsTo("video.download") # {}
       ELSE transcript # <<>> /\ CallsTo("youtube.videos") # {}

C30_StatusByOutcomeClass ==
    pc = "done" =>
        LET r == responses[1]
        IN  /\ Len(responses) = 1
            /\ r.success <=> r.status = 200
            /\ r.status = 400 <=> RejectedByValidation
            /\ r.status = 404 <=> (VideoNotFound \/ NoTranscriptFetched)
            /\ r.status \in {200, 400, 404, 500}
            /\ r.success
                  => /\ AllStagesReturnedContent
                     /\ r.summary = ReplyText(lastReply)
                     /\ r.transcript # <<>>
            /\ ~r.success => r.error # <<>>

C30_Witness ==
    /\ pc = "done"
    /\ responses[1].success
    /\ ~TookTwitterPath
    /\ lastReply.api = "gemini.generate"
    /\ CallsTo("captions.get") # {}

====
